---- MODULE Spec2Model ----
(***************************************************************************)
(* Model of langGraph/simple_travel_planner_langgraph.ipynb: a LangGraph   *)
(* StateGraph of three nodes (input_city, input_interests,                 *)
(* create_itinerary) built by the notebook's graph cell and driven by      *)
(* run_travel_planner through app.stream(state).                           *)
(*                                                                         *)
(* Text is a sequence of one-character strings for everything a user types *)
(* (so that split(',') and strip() are computed, not assumed); literal     *)
(* text of the notebook is a one-element sequence holding the literal.     *)
(***************************************************************************)
EXTENDS Integers, Sequences, FiniteSets, TLC

\* ------------------------------------------------------------------ bounds
\* longest line typed at the interests prompt (beyond the example lines)
MaxLen == 3
\* longest line typed at the city prompt (beyond the example lines)
MaxCityLen == 2
\* longest city line in the two-run specification
MaxPairLen == 1

\* ------------------------------------------------------------------- text
Alphabet == {"a", "b", ",", " "}
\* the characters str.strip() removes, restricted to the alphabet
Whitespace == {" "}
Comma == ","

RECURSIVE SeqsUpTo(_, _)
SeqsUpTo(S, n) ==
    IF n = 0 THEN {<<>>}
    ELSE LET shorter == SeqsUpTo(S, n - 1)
         IN  shorter \cup {Append(s, c) : s \in shorter, c \in S}

Paris == <<"p", "a", "r", "i", "s">>
Food == <<"f", "o", "o", "d">>
FoodWineArt == <<"f", "o", "o", "d", ",", " ", "w", "i", "n", "e", ",", " ", "a", "r", "t">>
PaddedLine == <<" ", "a", " ", "b", " ", ",", ",", " ">>

\* lines input() can return at the city prompt
CityLines == SeqsUpTo(Alphabet, MaxCityLen) \cup {Paris}
\* lines input() can return at the interests prompt
InterestLines == SeqsUpTo(Alphabet, MaxLen) \cup {Food, FoodWineArt, PaddedLine}
\* response.content values the chat model can return
Responses == {<<>>, <<"<itinerary text>">>}
\* the user_request of the use case cell, and one other
Requests == {<<"I want to plan a day trip.">>, <<>>}

\* split that drops empty pieces, as str.split() without a separator does
RECURSIVE split_skip_empty(_, _)
split_skip_empty(s, sep) ==
    IF \A i \in 1..Len(s) : s[i] # sep THEN (IF s = <<>> THEN <<>> ELSE <<s>>)
    ELSE LET i == CHOOSE k \in 1..Len(s) :
                      s[k] = sep /\ \A j \in 1..(k - 1) : s[j] # sep
         IN  (IF i = 1 THEN <<>> ELSE <<SubSeq(s, 1, i - 1)>>)
             \o split_skip_empty(SubSeq(s, i + 1, Len(s)), sep)

\* str.split(','): the pieces between the separators, empty pieces kept
RECURSIVE split(_, _)
split(s, sep) ==
    IF \A i \in 1..Len(s) : s[i] # sep THEN <<s>>
    ELSE LET i == CHOOSE k \in 1..Len(s) :
                      s[k] = sep /\ \A j \in 1..(k - 1) : s[j] # sep
         IN  <<SubSeq(s, 1, i - 1)>> \o split(SubSeq(s, i + 1, Len(s)), sep)

RECURSIVE lstrip(_)
lstrip(s) ==
    IF s # <<>> /\ Head(s) \in Whitespace THEN lstrip(Tail(s)) ELSE s

RECURSIVE rstrip(_)
rstrip(s) ==
    IF s # <<>> /\ s[Len(s)] \in Whitespace
    THEN rstrip(SubSeq(s, 1, Len(s) - 1)) ELSE s

\* strip that forgets the trailing whitespace
strip_left_only(s) == lstrip(s)

\* str.strip(): leading and trailing whitespace removed, inner kept
strip(s) == rstrip(lstrip(s))

\* sep.join(parts)
RECURSIVE join(_, _)
join(sep, parts) ==
    IF parts = <<>> THEN <<>>
    ELSE IF Len(parts) = 1 THEN parts[1]
    ELSE parts[1] \o sep \o join(sep, Tail(parts))

\* [interest.strip() for interest in user_message.split(',')]
parse_interests(user_message) ==
    LET parts == split(user_message, Comma)
    IN  [i \in 1..Len(parts) |-> strip(parts[i])]

\* --------------------------------------------------------------- messages
HumanMessage(content) == [type |-> "human", content |-> content]
AIMessage(content) == [type |-> "ai", content |-> content]

\* itinerary_prompt.format_messages(city=..., interests=...)
itinerary_prompt(city, interests) ==
    << [type |-> "system",
        content |-> <<"You are a helpful travel assistant. Create a day trip itinerary for ">>
                    \o city \o <<" based on the user's interests: ">> \o interests
                    \o <<". Provide a brief, bulleted itinerary.">>],
       HumanMessage(<<"Create an itinerary for my day trip.">>) >>

\* llm.invoke(itinerary_prompt.format_messages(...)): the messages sent and
\* what came back (returned: a response arrived; content: its text)
\* a call that passes the interests as the city and the city as interests
llm_call_swapped(state, returned, content) ==
    [messages |-> itinerary_prompt(join(<<",", " ">>, state.interests), state.city),
     returned |-> returned,
     content |-> content]

llm_call(state, returned, content) ==
    [messages |-> itinerary_prompt(state.city, join(<<",", " ">>, state.interests)),
     returned |-> returned,
     content |-> content]

\* ------------------------------------------------------------------ nodes
\* the dict each node function returns: {**state, key: value, ...}
\* input_city that trims the line before storing it
input_city_fn_strip(state, user_message) ==
    [state EXCEPT !.city = strip(user_message),
                  !.messages = state.messages \o <<HumanMessage(user_message)>>]

\* input_city that builds its result without the fields of the state
input_city_fn_fresh(state, user_message) ==
    [messages |-> state.messages \o <<HumanMessage(user_message)>>,
     city |-> user_message, interests |-> <<>>, itinerary |-> <<>>]

input_city_fn(state, user_message) ==
    [state EXCEPT !.city = user_message,
                  !.messages = state.messages \o <<HumanMessage(user_message)>>]

\* input_interests that starts the message list anew
input_interests_fn_replace(state, user_message) ==
    [state EXCEPT !.interests = parse_interests(user_message),
                  !.messages = <<HumanMessage(user_message)>>]

\* input_interests that appends the parsed interests, joined, as the message
input_interests_fn_parsed_message(state, user_message) ==
    [state EXCEPT !.interests = parse_interests(user_message),
                  !.messages = state.messages \o
                      <<HumanMessage(join(<<",", " ">>, parse_interests(user_message)))>>]

input_interests_fn(state, user_message) ==
    [state EXCEPT !.interests = parse_interests(user_message),
                  !.messages = state.messages \o <<HumanMessage(user_message)>>]

\* create_itinerary that stores the itinerary without appending the message
create_itinerary_fn_no_message(state, content) ==
    [state EXCEPT !.itinerary = content]

\* create_itinerary that appends the message without storing the itinerary
create_itinerary_fn_no_itinerary(state, content) ==
    [state EXCEPT !.messages = state.messages \o <<AIMessage(content)>>]

\* create_itinerary that builds its result without the fields of the state
create_itinerary_fn_fresh(state, content) ==
    [messages |-> state.messages \o <<AIMessage(content)>>,
     city |-> <<>>, interests |-> <<>>, itinerary |-> content]

create_itinerary_fn(state, content) ==
    [state EXCEPT !.messages = state.messages \o <<AIMessage(content)>>,
                  !.itinerary = content]

\* the state dict run_travel_planner builds
initial_state(user_request) ==
    [messages |-> <<HumanMessage(user_request)>>,
     city |-> <<>>, interests |-> <<>>, itinerary |-> <<>>]

\* ------------------------------------------------------------------ graph
START == "__start__"
END == "__end__"

\* the graph cell with the last edge leading back to the first node
BuildScript_loop ==
    << [op |-> "add_node", a |-> "input_city", b |-> "input_city"],
       [op |-> "add_node", a |-> "input_interests", b |-> "input_interests"],
       [op |-> "add_node", a |-> "create_itinerary", b |-> "create_itinerary"],
       [op |-> "set_entry_point", a |-> "input_city", b |-> ""],
       [op |-> "add_edge", a |-> "input_city", b |-> "input_interests"],
       [op |-> "add_edge", a |-> "input_interests", b |-> "create_itinerary"],
       [op |-> "add_edge", a |-> "create_itinerary", b |-> "input_city"],
       [op |-> "compile", a |-> "", b |-> ""] >>

\* the graph cell, one record per statement after StateGraph(PlannerState)
BuildScript ==
    << [op |-> "add_node", a |-> "input_city", b |-> "input_city"],
       [op |-> "add_node", a |-> "input_interests", b |-> "input_interests"],
       [op |-> "add_node", a |-> "create_itinerary", b |-> "create_itinerary"],
       [op |-> "set_entry_point", a |-> "input_city", b |-> ""],
       [op |-> "add_edge", a |-> "input_city", b |-> "input_interests"],
       [op |-> "add_edge", a |-> "input_interests", b |-> "create_itinerary"],
       [op |-> "add_edge", a |-> "create_itinerary", b |-> END],
       [op |-> "compile", a |-> "", b |-> ""] >>

\* the value of `app` before the graph cell has assigned it
NotCompiled == [compiled |-> FALSE, nodes |-> <<>>, edges |-> {}, entry |-> ""]

\* the nodes control passes to after node n
successors(graph, n) == {e[2] : e \in {d \in graph.edges : d[1] = n}}

\* ------------------------------------------------------------------ state
\* the name of the credential in the process environment
API_KEY == "OPENAI_API_KEY"
\* the exceptions input() can raise
InputErrors == {"EOFError", "KeyboardInterrupt"}
\* the exceptions llm.invoke can raise
LlmErrors == {"APITimeoutError", "AuthenticationError"}

RunIds == {1, 2}
\* the value of a run's state before run_travel_planner has built it
NoState == [messages |-> <<>>, city |-> <<>>, interests |-> <<>>, itinerary |-> <<>>]

VARIABLES
    cell,         \* the notebook cell in execution: "setup", "graph", "error"
    environ,      \* os.environ: the names set in the process environment
    dotenv,       \* the names the .env file sets
    bpc,          \* index of the next statement of the graph cell
    nodes,        \* workflow: node name -> node function
    edges,        \* workflow: set of <<from, to>>
    entry_point,  \* workflow: the entry node, "" while unset
    app,          \* the compiled graph
    status,       \* per run: "idle", "running", "done", "failed"
    cur,          \* per run: the node app.stream executes next
    state,        \* per run: the PlannerState the executor holds
    initial,      \* per run: the state handed to app.stream
    outputs,      \* per run: what app.stream has yielded, one entry per node
    stdin,        \* per run: the lines input() has returned, in order
    console,      \* per run: what print() and input() wrote and read, in order
    llm_calls,    \* per run: the llm.invoke calls, arguments and outcome
    raised,       \* per run: the exceptions raised inside node functions
    failure       \* per run: the exception that left run_travel_planner, or ""

process == <<cell, environ, dotenv>>
builder == <<process, bpc, nodes, edges, entry_point, app>>
runs == <<status, cur, state, initial, outputs, stdin, console, llm_calls,
          raised, failure>>
vars == <<builder, runs>>

Init ==
    /\ cell = "setup"
    /\ environ \in SUBSET {API_KEY}
    /\ dotenv \in SUBSET {API_KEY}
    /\ bpc = 1
    /\ nodes = <<>>
    /\ edges = {}
    /\ entry_point = ""
    /\ app = NotCompiled
    /\ status = [r \in RunIds |-> "idle"]
    /\ cur = [r \in RunIds |-> START]
    /\ state = [r \in RunIds |-> NoState]
    /\ initial = [r \in RunIds |-> NoState]
    /\ outputs = [r \in RunIds |-> <<>>]
    /\ stdin = [r \in RunIds |-> <<>>]
    /\ console = [r \in RunIds |-> <<>>]
    /\ llm_calls = [r \in RunIds |-> <<>>]
    /\ raised = [r \in RunIds |-> <<>>]
    /\ failure = [r \in RunIds |-> ""]

\* ---------------------------------------------------------- the setup cell
\* load_dotenv(): the names of the .env file not yet set are added
load_dotenv(env, file) == env \cup file

\* an assignment that skips a missing value instead of raising
setenv_raises_never(env) == FALSE

\* os.environ["OPENAI_API_KEY"] = os.getenv('OPENAI_API_KEY'): os.getenv
\* gives None for a missing name, and storing None raises TypeError
setenv_raises(env) == API_KEY \notin env

\* the setup cell; an exception ends the execution of the notebook
setup ==
    /\ cell = "setup"
    /\ environ' = load_dotenv(environ, dotenv)
    /\ cell' = IF setenv_raises(load_dotenv(environ, dotenv)) THEN "error" ELSE "graph"
    /\ UNCHANGED <<dotenv, bpc, nodes, edges, entry_point, app, runs>>

\* ---------------------------------------------------------- the graph cell
stmt == BuildScript[bpc]

add_node ==
    /\ cell = "graph"
    /\ bpc <= Len(BuildScript)
    /\ stmt.op = "add_node"
    /\ nodes' = [n \in (DOMAIN nodes) \cup {stmt.a} |->
                    IF n = stmt.a THEN stmt.b ELSE nodes[n]]
    /\ bpc' = bpc + 1
    /\ UNCHANGED <<process, edges, entry_point, app, runs>>

set_entry_point ==
    /\ cell = "graph"
    /\ bpc <= Len(BuildScript)
    /\ stmt.op = "set_entry_point"
    /\ entry_point' = stmt.a
    /\ bpc' = bpc + 1
    /\ UNCHANGED <<process, nodes, edges, app, runs>>

add_edge ==
    /\ cell = "graph"
    /\ bpc <= Len(BuildScript)
    /\ stmt.op = "add_edge"
    /\ edges' = edges \cup {<<stmt.a, stmt.b>>}
    /\ bpc' = bpc + 1
    /\ UNCHANGED <<process, nodes, entry_point, app, runs>>

compile ==
    /\ cell = "graph"
    /\ bpc <= Len(BuildScript)
    /\ stmt.op = "compile"
    /\ app' = [compiled |-> TRUE, nodes |-> nodes, edges |-> edges,
               entry |-> entry_point]
    /\ bpc' = bpc + 1
    /\ UNCHANGED <<process, nodes, edges, entry_point, runs>>

\* ------------------------------------------------------------------- runs
\* the node names run r has executed, in order
steps(r) == [i \in 1..Len(outputs[r]) |-> outputs[r][i].node]

\* the last value app.stream yielded to run r's loop
final_state(r) == outputs[r][Len(outputs[r])].value

\* print(text)
printed(text) == <<[io |-> "print", text |-> text]>>
\* input("Your input: ") up to the read: the prompt is written
prompted == <<[io |-> "prompt", text |-> <<"Your input: ">>]>>
\* input("Your input: ") returning a line
typed(line) == prompted \o <<[io |-> "input", text |-> line]>>

\* an executor that yields the node's return value but goes on with the
\* state it had
advance_keeps_state(r, new_state) ==
    /\ UNCHANGED state
    /\ outputs' = [outputs EXCEPT ![r] =
                       Append(@, [node |-> cur[r], value |-> new_state])]
    /\ \E nxt \in successors(app, cur[r]) :
          /\ cur' = [cur EXCEPT ![r] = nxt]
          /\ status' = [status EXCEPT ![r] = IF nxt = END THEN "done" ELSE "running"]

\* an executor that keeps one state for all runs of the app
advance_shared(r, new_state) ==
    /\ state' = [q \in RunIds |-> new_state]
    /\ outputs' = [outputs EXCEPT ![r] =
                       Append(@, [node |-> cur[r], value |-> new_state])]
    /\ \E nxt \in successors(app, cur[r]) :
          /\ cur' = [cur EXCEPT ![r] = nxt]
          /\ status' = [status EXCEPT ![r] = IF nxt = END THEN "done" ELSE "running"]

\* app.stream: the node's return value replaces the state and control
\* passes along the node's outgoing edge; the stream ends at END
advance(r, new_state) ==
    /\ state' = [state EXCEPT ![r] = new_state]
    /\ outputs' = [outputs EXCEPT ![r] =
                       Append(@, [node |-> cur[r], value |-> new_state])]
    /\ \E nxt \in successors(app, cur[r]) :
          /\ cur' = [cur EXCEPT ![r] = nxt]
          /\ status' = [status EXCEPT ![r] = IF nxt = END THEN "done" ELSE "running"]

\* an executor that swallows the exception of a node and goes on to the
\* next node with the state it had
abort_skip(r, exc) ==
    /\ raised' = [raised EXCEPT ![r] = Append(@, exc)]
    /\ UNCHANGED failure
    /\ advance(r, state[r])

\* an exception raised in a node: neither the node function, app.stream nor
\* run_travel_planner has a handler, so it ends the run and reaches the caller
abort(r, exc) ==
    /\ raised' = [raised EXCEPT ![r] = Append(@, exc)]
    /\ failure' = [failure EXCEPT ![r] = exc]
    /\ status' = [status EXCEPT ![r] = "failed"]
    /\ UNCHANGED <<cur, state, outputs>>

run_travel_planner(r, requests) ==
    /\ bpc > Len(BuildScript)
    /\ app.compiled
    /\ status[r] = "idle"
    /\ \E user_request \in requests :
          /\ console' = [console EXCEPT ![r] =
                @ \o printed(<<"Initial Request: ">> \o user_request \o <<"\n">>)]
          /\ state' = [state EXCEPT ![r] = initial_state(user_request)]
          /\ initial' = [initial EXCEPT ![r] = initial_state(user_request)]
    /\ cur' = [cur EXCEPT ![r] = app.entry]
    /\ status' = [status EXCEPT ![r] = "running"]
    /\ UNCHANGED <<builder, outputs, stdin, llm_calls, raised, failure>>

\* app.stream(state) called with a state of the caller's choice
stream_from(r, states) ==
    /\ bpc > Len(BuildScript)
    /\ app.compiled
    /\ status[r] = "idle"
    /\ \E s \in states :
          /\ state' = [state EXCEPT ![r] = s]
          /\ initial' = [initial EXCEPT ![r] = s]
    /\ cur' = [cur EXCEPT ![r] = app.entry]
    /\ status' = [status EXCEPT ![r] = "running"]
    /\ UNCHANGED <<builder, outputs, stdin, console, llm_calls, raised, failure>>

\* input_city that asks again until the line is not empty
input_city_retry(r, lines) ==
    /\ status[r] = "running"
    /\ app.nodes[cur[r]] = "input_city"
    /\ \E user_message \in lines :
          /\ console' = [console EXCEPT ![r] =
                @ \o printed(<<"Please enter the city you want to visit for your day trip:">>)
                  \o typed(user_message)]
          /\ stdin' = [stdin EXCEPT ![r] = Append(@, user_message)]
          /\ IF user_message = <<>>
             THEN UNCHANGED <<state, outputs, cur, status>>
             ELSE advance(r, input_city_fn(state[r], user_message))
          /\ UNCHANGED <<raised, failure>>
    /\ UNCHANGED <<builder, initial, llm_calls>>

input_city(r, lines) ==
    /\ status[r] = "running"
    /\ app.nodes[cur[r]] = "input_city"
    /\ \/ \* input() returns a line
          \E user_message \in lines :
             /\ console' = [console EXCEPT ![r] =
                   @ \o printed(<<"Please enter the city you want to visit for your day trip:">>)
                     \o typed(user_message)]
             /\ stdin' = [stdin EXCEPT ![r] = Append(@, user_message)]
             /\ advance(r, input_city_fn(state[r], user_message))
             /\ UNCHANGED <<raised, failure>>
       \/ \* input() raises
          \E exc \in InputErrors :
             /\ console' = [console EXCEPT ![r] =
                   @ \o printed(<<"Please enter the city you want to visit for your day trip:">>)
                     \o prompted]
             /\ abort(r, exc)
             /\ UNCHANGED stdin
    /\ UNCHANGED <<builder, initial, llm_calls>>

input_interests(r, lines) ==
    /\ status[r] = "running"
    /\ app.nodes[cur[r]] = "input_interests"
    /\ \/ \* input() returns a line
          \E user_message \in lines :
             /\ console' = [console EXCEPT ![r] =
                   @ \o printed(<<"Please enter your interests for the trip to ">>
                                \o state[r].city \o <<" (comma-separated):">>)
                     \o typed(user_message)]
             /\ stdin' = [stdin EXCEPT ![r] = Append(@, user_message)]
             /\ advance(r, input_interests_fn(state[r], user_message))
             /\ UNCHANGED <<raised, failure>>
       \/ \* input() raises
          \E exc \in InputErrors :
             /\ console' = [console EXCEPT ![r] =
                   @ \o printed(<<"Please enter your interests for the trip to ">>
                                \o state[r].city \o <<" (comma-separated):">>)
                     \o prompted]
             /\ abort(r, exc)
             /\ UNCHANGED stdin
    /\ UNCHANGED <<builder, initial, llm_calls>>

create_itinerary(r) ==
    /\ status[r] = "running"
    /\ app.nodes[cur[r]] = "create_itinerary"
    /\ \/ \* llm.invoke returns a response
          \E content \in Responses :
             /\ llm_calls' = [llm_calls EXCEPT ![r] =
                   Append(@, llm_call(state[r], TRUE, content))]
             /\ console' = [console EXCEPT ![r] =
                   @ \o printed(<<"Creating an itinerary for ">> \o state[r].city
                                \o <<" based on interests: ">>
                                \o join(<<",", " ">>, state[r].interests) \o <<"...">>)
                     \o printed(<<"\nFinal Itinerary:">>)
                     \o printed(content)]
             /\ advance(r, create_itinerary_fn(state[r], content))
             /\ UNCHANGED <<raised, failure>>
       \/ \* llm.invoke raises
          \E exc \in LlmErrors :
             /\ llm_calls' = [llm_calls EXCEPT ![r] =
                   Append(@, llm_call(state[r], FALSE, <<>>))]
             /\ console' = [console EXCEPT ![r] =
                   @ \o printed(<<"Creating an itinerary for ">> \o state[r].city
                                \o <<" based on interests: ">>
                                \o join(<<",", " ">>, state[r].interests) \o <<"...">>)]
             /\ abort(r, exc)
    /\ UNCHANGED <<builder, initial, stdin>>

\* the notebook: the graph cell, then one call of run_travel_planner
Next ==
    \/ setup
    \/ add_node
    \/ set_entry_point
    \/ add_edge
    \/ compile
    \/ run_travel_planner(1, Requests)
    \/ input_city(1, CityLines)
    \/ input_interests(1, InterestLines)
    \/ create_itinerary(1)

Spec == Init /\ [][Next]_vars

\* two calls of run_travel_planner on the one compiled app, their node
\* executions interleaved in every order
PairCityLines == SeqsUpTo(Alphabet, MaxPairLen)
PairInterestLines == {<<>>, <<" ", "a">>, <<"a", ",", " ", "b">>}
PairRequests == {<<"I want to plan a day trip.">>}

NextPair ==
    \/ setup
    \/ add_node
    \/ set_entry_point
    \/ add_edge
    \/ compile
    \/ \E r \in RunIds :
          \/ run_travel_planner(r, PairRequests)
          \/ input_city(r, PairCityLines)
          \/ input_interests(r, PairInterestLines)
          \/ create_itinerary(r)

SpecPair == Init /\ [][NextPair]_vars

\* one run in which every blocking call comes back: input() and llm.invoke
\* each return or raise, so an enabled node is eventually executed
NextLive ==
    \/ setup
    \/ add_node
    \/ set_entry_point
    \/ add_edge
    \/ compile
    \/ run_travel_planner(1, Requests)
    \/ input_city(1, PairCityLines)
    \/ input_interests(1, PairInterestLines)
    \/ create_itinerary(1)

\* one app.stream call on a state whose fields may already be set
FrameStates ==
    [messages : {<<>>, <<HumanMessage(<<"a">>)>>, <<AIMessage(<<"b">>), HumanMessage(<<>>)>>},
     city : {<<>>, <<"b">>},
     interests : {<<>>, << <<"a">>, <<>> >>},
     itinerary : {<<>>, <<"b", " ">>}]

NextFrame ==
    \/ setup
    \/ add_node
    \/ set_entry_point
    \/ add_edge
    \/ compile
    \/ stream_from(1, FrameStates)
    \/ input_city(1, PairCityLines)
    \/ input_interests(1, PairInterestLines)
    \/ create_itinerary(1)

SpecFrame == Init /\ [][NextFrame]_vars

SpecLive ==
    /\ Init
    /\ [][NextLive]_vars
    /\ WF_vars(input_city(1, PairCityLines))
    /\ WF_vars(input_interests(1, PairInterestLines))
    /\ WF_vars(create_itinerary(1))

\* ----------------------------------------------------------------- claims
Chain == <<"input_city", "input_interests", "create_itinerary">>

\* C1: a completed run started with one message ends with that message
\* followed by exactly three appended entries, one per node
C1_MessagesLength ==
    \A r \in RunIds :
        status[r] = "done" =>
            /\ Len(initial[r].messages) = 1
            /\ Len(final_state(r).messages) = Len(initial[r].messages) + 3
            /\ SubSeq(final_state(r).messages, 1, 1) = initial[r].messages
            /\ \A i \in 1..3 :
                  Len(outputs[r][i].value.messages) = Len(initial[r].messages) + i

C1_Witness ==
    /\ status[1] = "done"
    /\ Len(initial[1].messages) = 1
    /\ Len(final_state(1).messages) = 4

\* C2: the compiled graph is the straight chain input_city ->
\* input_interests -> create_itinerary -> END with one successor per node,
\* and every run executes a prefix of that chain, no node twice
C2_StraightChain ==
    /\ app.compiled =>
          /\ app.entry = Chain[1]
          /\ DOMAIN app.nodes = {Chain[i] : i \in 1..Len(Chain)}
          /\ \A i \in 1..Len(Chain) :
                successors(app, Chain[i]) =
                    {IF i < Len(Chain) THEN Chain[i + 1] ELSE END}
    /\ \A r \in RunIds :
          /\ Len(steps(r)) <= Len(Chain)
          /\ steps(r) = SubSeq(Chain, 1, Len(steps(r)))
          /\ \A i, j \in 1..Len(steps(r)) : steps(r)[i] = steps(r)[j] => i = j
          /\ status[r] = "running" => cur[r] = Chain[Len(steps(r)) + 1]
          /\ status[r] = "done" => steps(r) = Chain /\ cur[r] = END

C2_Witness ==
    /\ status[1] = "done"
    /\ steps(1) = Chain
    /\ cur[1] = END

\* the positions of the commas of a line, and the k-th of them
comma_positions(line) == {i \in 1..Len(line) : line[i] = Comma}
nth_comma(line, k) ==
    CHOOSE p \in comma_positions(line) :
        Cardinality({q \in comma_positions(line) : q < p}) = k - 1
\* the text between the (k-1)-th and the k-th comma
segment(line, k) ==
    LET n == Cardinality(comma_positions(line))
        from == IF k = 1 THEN 1 ELSE nth_comma(line, k - 1) + 1
        to == IF k = n + 1 THEN Len(line) ELSE nth_comma(line, k) - 1
    IN  SubSeq(line, from, to)
\* a text from its first to its last non-whitespace character
trimmed(text) ==
    LET solid == {i \in 1..Len(text) : text[i] \notin Whitespace}
    IN  IF solid = {} THEN <<>>
        ELSE SubSeq(text, CHOOSE i \in solid : \A j \in solid : i <= j,
                          CHOOSE i \in solid : \A j \in solid : j <= i)
expected_interests(line) ==
    [k \in 1..(Cardinality(comma_positions(line)) + 1) |-> trimmed(segment(line, k))]

\* C3: once the interests line is read, interests is the line's
\* comma-separated pieces in order, each trimmed, one more than commas
C3_InterestsParsed ==
    \A r \in RunIds :
        Len(stdin[r]) >= 2 =>
            /\ state[r].interests = expected_interests(stdin[r][2])
            /\ Len(state[r].interests) = Cardinality(comma_positions(stdin[r][2])) + 1
            /\ stdin[r][2] = FoodWineArt =>
                  state[r].interests = << <<"f", "o", "o", "d">>,
                                          <<"w", "i", "n", "e">>,
                                          <<"a", "r", "t">> >>

C3_Witness ==
    /\ status[1] = "done"
    /\ stdin[1][2] = FoodWineArt
    /\ final_state(1).interests = << <<"f", "o", "o", "d">>,
                                     <<"w", "i", "n", "e">>,
                                     <<"a", "r", "t">> >>

\* C4: an empty interests line gives the one-element sequence holding the
\* empty token, and empty tokens stay in place among the others
C4_EmptyLine ==
    \A r \in RunIds :
        /\ (Len(stdin[r]) >= 2 /\ stdin[r][2] = <<>>) =>
              /\ state[r].interests = << <<>> >>
              /\ status[r] = "done" => final_state(r).interests = << <<>> >>
        /\ (Len(stdin[r]) >= 2 /\ stdin[r][2] = <<",", "a", ",">>) =>
              state[r].interests = << <<>>, <<"a">>, <<>> >>

C4_Witness ==
    /\ status[1] = "done"
    /\ stdin[1][2] = <<>>
    /\ Len(final_state(1).interests) = 1
    /\ final_state(1).interests[1] = <<>>

\* C5: from the city step on, city is the line read there, unchanged
C5_CityVerbatim ==
    \A r \in RunIds :
        Len(stdin[r]) >= 1 =>
            /\ state[r].city = stdin[r][1]
            /\ \A i \in 1..Len(outputs[r]) : outputs[r][i].value.city = stdin[r][1]

C5_Witness ==
    /\ status[1] = "done"
    /\ stdin[1][1] = <<" ", "a">>
    /\ final_state(1).city = <<" ", "a">>

\* C6: two completed runs with equal initial states, equal input lines
\* and equal service responses yield equal final states
C6_Deterministic ==
    ( /\ status[1] = "done"
      /\ status[2] = "done"
      /\ initial[1] = initial[2]
      /\ stdin[1] = stdin[2]
      /\ llm_calls[1][1].content = llm_calls[2][1].content )
    => /\ final_state(1) = final_state(2)
       /\ outputs[1] = outputs[2]

C6_Witness ==
    /\ status[1] = "done"
    /\ status[2] = "done"
    /\ initial[1] = initial[2]
    /\ stdin[1] = stdin[2]
    /\ stdin[1] = << <<"b">>, <<"a", ",", " ", "b">> >>
    /\ llm_calls[1][1].content = llm_calls[2][1].content
    /\ final_state(1) = final_state(2)

\* C7: the use case: request "I want to plan a day trip.", lines "paris"
\* and "food", response R give city "paris", interests ["food"],
\* itinerary R and four messages
C7_EndToEnd ==
    ( /\ status[1] = "done"
      /\ initial[1] = [messages |-> <<HumanMessage(<<"I want to plan a day trip.">>)>>,
                       city |-> <<>>, interests |-> <<>>, itinerary |-> <<>>]
      /\ stdin[1] = <<Paris, Food>> )
    => /\ final_state(1).city = Paris
       /\ final_state(1).interests = <<Food>>
       /\ final_state(1).itinerary = llm_calls[1][1].content
       /\ Len(final_state(1).messages) = 4

C7_Witness ==
    /\ status[1] = "done"
    /\ stdin[1] = <<Paris, Food>>
    /\ initial[1].messages = <<HumanMessage(<<"I want to plan a day trip.">>)>>
    /\ llm_calls[1][1].content = <<"<itinerary text>">>
    /\ final_state(1).itinerary = <<"<itinerary text>">>
    /\ final_state(1).interests = <<Food>>

\* C12: without the API key in the process environment the setup cell
\* fails and nothing after it executes; llm.invoke is never called
\* without the key in the environment
C12_KeyRequired ==
    /\ (cell # "setup" /\ API_KEY \notin environ) => cell = "error"
    /\ cell = "error" =>
          /\ API_KEY \notin environ
          /\ bpc = 1
          /\ ~app.compiled
          /\ \A r \in RunIds : status[r] = "idle" /\ llm_calls[r] = <<>>
    /\ \A r \in RunIds :
          (status[r] # "idle" \/ llm_calls[r] # <<>>) => API_KEY \in environ

C12_Witness ==
    /\ cell = "error"
    /\ API_KEY \notin environ
    /\ API_KEY \notin dotenv

\* the part of the state that belongs to run r
run_view(r) ==
    <<status[r], cur[r], state[r], initial[r], outputs[r], stdin[r],
      console[r], llm_calls[r], raised[r], failure[r]>>

\* C13: an exception raised in a node ends the run at once: the run is
\* failed, the exception reaches the caller as raised, the failing node
\* yields no output and is not executed again, no later node executes,
\* and the run never completes
C13_AbortOnFailure ==
    /\ [](\A r \in RunIds :
            /\ status[r] = "failed" <=> raised[r] # <<>>
            /\ (llm_calls[r] # <<>> /\ ~llm_calls[r][Len(llm_calls[r])].returned)
                  => raised[r] # <<>>
            /\ raised[r] # <<>> =>
                  /\ Len(raised[r]) = 1
                  /\ failure[r] = raised[r][1]
                  /\ Len(outputs[r]) < Len(Chain)
                  /\ cur[r] = Chain[Len(outputs[r]) + 1]
                  /\ state[r] = IF outputs[r] = <<>> THEN initial[r]
                                ELSE final_state(r)
                  /\ state[r].itinerary = <<>>
                  /\ Len(llm_calls[r]) <= 1
            /\ raised[r] = <<>> => failure[r] = "")
    /\ [][\A r \in RunIds : status[r] = "failed" => run_view(r)' = run_view(r)]_vars

C13_Witness ==
    /\ status[1] = "failed"
    /\ failure[1] = "AuthenticationError"
    /\ Len(outputs[1]) = 2
    /\ Len(llm_calls[1]) = 1

\* a is b cut short by at least one entry
proper_prefix(a, b) == Len(a) < Len(b) /\ SubSeq(b, 1, Len(a)) = a

\* C14: messages only grows: the value each node yields extends the
\* previous one by entries at the end, and every change of a run's
\* messages keeps the old value as a proper prefix
C14_AppendOnly ==
    /\ [](\A r \in RunIds : \A i \in 1..Len(outputs[r]) :
            proper_prefix(IF i = 1 THEN initial[r].messages
                          ELSE outputs[r][i - 1].value.messages,
                          outputs[r][i].value.messages))
    /\ [][\A r \in RunIds :
            /\ state[r]'.messages # state[r].messages =>
                  proper_prefix(state[r].messages, state[r]'.messages)
            /\ outputs[r]' # outputs[r] =>
                  proper_prefix(state[r].messages, state[r]'.messages)]_vars

C14_Witness ==
    /\ status[1] = "done"
    /\ Len(state[1].messages) = 4
    /\ outputs[1][2].value.messages = SubSeq(state[1].messages, 1, 3)
    /\ outputs[1][1].value.messages = SubSeq(state[1].messages, 1, 2)
    /\ stdin[1] = << <<"a">>, <<"b", ",">> >>

\* what every run keeps of C15: each field is written by its own node
\* only and holds that value from then on
assigned_once(r) ==
    LET n == Len(outputs[r])
    IN  /\ initial[r].city = <<>> /\ initial[r].interests = <<>>
        /\ initial[r].itinerary = <<>>
        /\ \A i \in 1..n :
              /\ outputs[r][i].value.city = stdin[r][1]
              /\ outputs[r][i].value.interests =
                    (IF i >= 2 THEN outputs[r][2].value.interests ELSE <<>>)
              /\ outputs[r][i].value.itinerary =
                    (IF i >= 3 THEN llm_calls[r][1].content ELSE <<>>)
        /\ state[r] = IF n = 0 THEN initial[r] ELSE final_state(r)

\* C15 as stated: after its node each of city, interests and itinerary is
\* populated, whatever the line read and whatever the response
C15_Original ==
    \A r \in RunIds :
        /\ assigned_once(r)
        /\ Len(outputs[r]) >= 1 => state[r].city # <<>>
        /\ Len(outputs[r]) >= 2 => state[r].interests # <<>>
        /\ Len(outputs[r]) >= 3 => state[r].itinerary # <<>>

\* C15, amended: each field is written by its own node only and never
\* changes afterwards; interests is non-empty once written, city and
\* itinerary are non-empty exactly when the line read, respectively the
\* response, is non-empty
C15_AssignedOnce ==
    /\ [](\A r \in RunIds :
            /\ assigned_once(r)
            /\ Len(outputs[r]) >= 1 => (state[r].city # <<>> <=> stdin[r][1] # <<>>)
            /\ Len(outputs[r]) >= 2 => Len(state[r].interests) >= 1
            /\ Len(outputs[r]) >= 3 =>
                  (state[r].itinerary # <<>> <=> llm_calls[r][1].content # <<>>))
    /\ [][\A r \in RunIds :
            /\ state[r]'.city # state[r].city =>
                  Len(outputs[r]) = 0 /\ Len(outputs[r]') = 1
            /\ state[r]'.interests # state[r].interests =>
                  Len(outputs[r]) = 1 /\ Len(outputs[r]') = 2
            /\ state[r]'.itinerary # state[r].itinerary =>
                  Len(outputs[r]) = 2 /\ Len(outputs[r]') = 3]_vars

C15_Witness ==
    /\ status[1] = "done"
    /\ stdin[1][1] = <<>>
    /\ state[1].city = <<>>
    /\ state[1].interests = << <<"a">>, <<"b">> >>
    /\ state[1].itinerary = <<"<itinerary text>">>

\* the state a run reaches by itself from init after n nodes, reading
\* lines and receiving content
alone(init, lines, content, n) ==
    LET s1 == input_city_fn(init, lines[1])
        s2 == input_interests_fn(s1, lines[2])
    IN  IF n = 0 THEN init
        ELSE IF n = 1 THEN s1
        ELSE IF n = 2 THEN s2
        ELSE create_itinerary_fn(s2, content)

\* C16: with two runs interleaved on the one app, each run's state after
\* every node, and so its final state, is the one it reaches alone from
\* its own initial state, lines and response
C16_NoInterference ==
    \A r \in RunIds :
        /\ state[r] = alone(initial[r], stdin[r],
                            IF Len(outputs[r]) = 3 THEN llm_calls[r][1].content ELSE <<>>,
                            Len(outputs[r]))
        /\ \A i \in 1..Len(outputs[r]) :
              outputs[r][i].value =
                  alone(initial[r], stdin[r],
                        IF i = 3 THEN llm_calls[r][1].content ELSE <<>>, i)
        /\ status[r] = "done" => Len(outputs[r]) = 3 /\ final_state(r) = state[r]

C16_Witness ==
    /\ status[1] = "done"
    /\ status[2] = "done"
    /\ stdin[1] = << <<"a">>, <<" ", "a">> >>
    /\ stdin[2] = << <<",">>, <<"a", ",", " ", "b">> >>
    /\ final_state(1).city = <<"a">>
    /\ final_state(2).city = <<",">>
    /\ Len(final_state(1).messages) = 4
    /\ Len(final_state(2).messages) = 4

\* C17: a started run whose calls come back without an exception reaches
\* END after exactly three nodes; no run executes a fourth node
C17_Terminates ==
    /\ [](\A r \in RunIds :
            /\ Len(outputs[r]) <= 3
            /\ status[r] = "done" =>
                  Len(outputs[r]) = 3 /\ cur[r] = END /\ steps(r) = Chain)
    /\ (status[1] = "running") ~> (status[1] = "done" \/ raised[1] # <<>>)

C17_Witness ==
    /\ status[1] = "done"
    /\ raised[1] = <<>>
    /\ Len(outputs[1]) = 3
    /\ cur[1] = END
    /\ stdin[1] = << <<" ">>, <<>> >>

\* the state node i of run r was called with
input_of(r, i) == IF i = 1 THEN initial[r] ELSE outputs[r][i - 1].value

\* C18: each node returns its input state with only its own field and
\* messages changed: input_city city, input_interests interests,
\* create_itinerary itinerary; and no step changes the initial state or a
\* value yielded earlier
C18_Frame ==
    /\ [](\A r \in RunIds : \A i \in 1..Len(outputs[r]) :
            LET old == input_of(r, i)
                new == outputs[r][i].value
                node == outputs[r][i].node
            IN  /\ DOMAIN new = DOMAIN old
                /\ node = "input_city" =>
                      new.interests = old.interests /\ new.itinerary = old.itinerary
                /\ node = "input_interests" =>
                      new.city = old.city /\ new.itinerary = old.itinerary
                /\ node = "create_itinerary" =>
                      new.city = old.city /\ new.interests = old.interests
                /\ node \in {"input_city", "input_interests", "create_itinerary"})
    /\ [][\A r \in RunIds :
            status[r] # "idle" =>
                /\ initial[r]' = initial[r]
                /\ Len(outputs[r]') >= Len(outputs[r])
                /\ SubSeq(outputs[r]', 1, Len(outputs[r])) = outputs[r]]_vars

C18_Witness ==
    /\ status[1] = "done"
    /\ initial[1].interests = << <<"a">>, <<>> >>
    /\ initial[1].itinerary = <<"b", " ">>
    /\ initial[1].city = <<"b">>
    /\ outputs[1][1].value.interests = << <<"a">>, <<>> >>
    /\ outputs[1][1].value.itinerary = <<"b", " ">>
    /\ outputs[1][2].value.city = stdin[1][1]
    /\ outputs[1][3].value.interests = outputs[1][2].value.interests

\* C19: input_city appends a human message holding the new city,
\* input_interests a human message holding the line as typed,
\* create_itinerary an ai message holding the new itinerary; a completed
\* run's messages are the initial ones followed by these three in order
C19_MessageContents ==
    \A r \in RunIds :
        /\ \A i \in 1..Len(outputs[r]) :
              LET old == input_of(r, i).messages
                  new == outputs[r][i].value
                  last == new.messages[Len(new.messages)]
              IN  /\ Len(new.messages) = Len(old) + 1
                  /\ i = 1 => last = [type |-> "human", content |-> new.city]
                              /\ last.content = stdin[r][1]
                  /\ i = 2 => last = [type |-> "human", content |-> stdin[r][2]]
                  /\ i = 3 => last = [type |-> "ai", content |-> new.itinerary]
                              /\ last.content = llm_calls[r][1].content
        /\ status[r] = "done" =>
              final_state(r).messages =
                  initial[r].messages \o
                  << [type |-> "human", content |-> stdin[r][1]],
                     [type |-> "human", content |-> stdin[r][2]],
                     [type |-> "ai", content |-> llm_calls[r][1].content] >>

C19_Witness ==
    /\ status[1] = "done"
    /\ stdin[1][2] = PaddedLine
    /\ final_state(1).messages[3] = [type |-> "human", content |-> PaddedLine]
    /\ final_state(1).interests = << <<"a", " ", "b">>, <<>>, <<>> >>
    /\ final_state(1).messages[4].type = "ai"
    /\ final_state(1).messages[4].content = <<"<itinerary text>">>

\* the lines read in run r according to the console transcript
lines_read(r) ==
    LET reads == SelectSeq(console[r], LAMBDA e : e.io = "input")
    IN  [i \in 1..Len(reads) |-> reads[i].text]

\* C20: every line read completes its node, whatever it holds: an input
\* node prints its prompt and reads once, the line goes unchanged into the
\* state and on into the request to the model, and a completed run has
\* read exactly two lines
C20_NoValidation ==
    \A r \in RunIds :
        /\ Len(stdin[r]) = (IF Len(outputs[r]) <= 2 THEN Len(outputs[r]) ELSE 2)
        /\ lines_read(r) = stdin[r]
        /\ \A k \in 1..Len(console[r]) :
              console[r][k].io = "input" =>
                  /\ k >= 3
                  /\ console[r][k - 1] = [io |-> "prompt", text |-> <<"Your input: ">>]
                  /\ console[r][k - 2].io = "print"
        /\ Cardinality({k \in 1..Len(console[r]) : console[r][k].io = "prompt"})
              = Len(stdin[r]) + (IF raised[r] # <<>> /\ llm_calls[r] = <<>> THEN 1 ELSE 0)
        /\ \A i \in 1..Len(raised[r]) : raised[r][i] \in InputErrors \cup LlmErrors
        /\ Len(outputs[r]) >= 1 => outputs[r][1].value.city = stdin[r][1]
        /\ Len(outputs[r]) >= 2 =>
              /\ outputs[r][2].value.city = stdin[r][1]
              /\ outputs[r][2].value.interests = expected_interests(stdin[r][2])
        /\ llm_calls[r] # <<>> =>
              llm_calls[r][1].messages =
                  itinerary_prompt(stdin[r][1],
                                   join(<<",", " ">>, expected_interests(stdin[r][2])))
        /\ status[r] = "done" => Len(stdin[r]) = 2

C20_Witness ==
    /\ status[1] = "done"
    /\ stdin[1] = << <<>>, <<>> >>
    /\ final_state(1).city = <<>>
    /\ final_state(1).interests = << <<>> >>
    /\ Len(lines_read(1)) = 2

\* the tokens of a list written one after the other with ", " between
RECURSIVE comma_separated(_)
comma_separated(tokens) ==
    IF Len(tokens) = 0 THEN <<>>
    ELSE IF Len(tokens) = 1 THEN tokens[1]
    ELSE comma_separated(SubSeq(tokens, 1, Len(tokens) - 1))
         \o <<",", " ">> \o tokens[Len(tokens)]

\* C21: llm.invoke is called at most once in a run and exactly once in a
\* completed one, only after both lines were read, with a system message
\* naming the city and the interests the first two nodes stored; the text
\* it returns is the itinerary, unchanged
C21_OneServiceCall ==
    \A r \in RunIds :
        /\ Len(llm_calls[r]) <= 1
        /\ status[r] = "done" =>
              /\ Len(llm_calls[r]) = 1
              /\ llm_calls[r][1].returned
              /\ final_state(r).itinerary = llm_calls[r][1].content
        /\ llm_calls[r] # <<>> =>
              /\ Len(stdin[r]) = 2
              /\ Len(outputs[r]) >= 2
              /\ steps(r)[1] = "input_city" /\ steps(r)[2] = "input_interests"
              /\ outputs[r][2].value.city = stdin[r][1]
              /\ LET sent == llm_calls[r][1].messages
                     stored == outputs[r][2].value
                 IN  /\ Len(sent) = 2
                     /\ sent[1].type = "system"
                     /\ sent[1].content =
                           <<"You are a helpful travel assistant. Create a day trip itinerary for ">>
                           \o stored.city
                           \o <<" based on the user's interests: ">>
                           \o comma_separated(stored.interests)
                           \o <<". Provide a brief, bulleted itinerary.">>
                     /\ sent[2] = [type |-> "human",
                                   content |-> <<"Create an itinerary for my day trip.">>]
              /\ llm_calls[r][1].returned <=> Len(outputs[r]) = 3
        /\ Len(outputs[r]) = 3 => outputs[r][3].value.itinerary = llm_calls[r][1].content

C21_Witness ==
    /\ status[1] = "done"
    /\ stdin[1] = << <<"b">>, <<"a", ",", "b">> >>
    /\ Len(llm_calls[1]) = 1
    /\ llm_calls[1][1].messages[1].content =
          <<"You are a helpful travel assistant. Create a day trip itinerary for ",
            "b", " based on the user's interests: ", "a", ",", " ", "b",
            ". Provide a brief, bulleted itinerary.">>
    /\ final_state(1).itinerary = <<"<itinerary text>">>

\* C22: at every point of a run messages has grown by one entry per
\* completed node and the state the executor holds, which the next node is
\* called with, is the value the last node returned; so city is the line
\* read when input_interests starts, and city and interests are both set
\* when create_itinerary starts
C22_Progress ==
    /\ [](\A r \in RunIds :
            status[r] # "idle" =>
                /\ Len(state[r].messages) = Len(initial[r].messages) + Len(outputs[r])
                /\ state[r] = IF outputs[r] = <<>> THEN initial[r] ELSE final_state(r)
                /\ \A i \in 1..Len(outputs[r]) :
                      Len(outputs[r][i].value.messages) = Len(initial[r].messages) + i
                /\ (status[r] = "running" /\ cur[r] = "input_city") =>
                      Len(outputs[r]) = 0
                /\ (status[r] = "running" /\ cur[r] = "input_interests") =>
                      /\ Len(outputs[r]) = 1
                      /\ state[r].city = stdin[r][1]
                /\ (status[r] = "running" /\ cur[r] = "create_itinerary") =>
                      /\ Len(outputs[r]) = 2
                      /\ state[r].city = stdin[r][1]
                      /\ state[r].interests = expected_interests(stdin[r][2])
                /\ \A k \in 1..Len(console[r]) :
                      (console[r][k].io = "input" /\ k + 1 <= Len(console[r])
                          /\ console[r][k].text = stdin[r][1]
                          /\ Len(SelectSeq(SubSeq(console[r], 1, k),
                                           LAMBDA e : e.io = "input")) = 1) =>
                          console[r][k + 1].text =
                              <<"Please enter your interests for the trip to ">>
                              \o stdin[r][1] \o <<" (comma-separated):">>)
    /\ [][\A r \in RunIds :
            state[r]' # state[r] =>
                \/ status[r] = "idle" /\ state[r]' = initial[r]'
                \/ /\ Len(outputs[r]') = Len(outputs[r]) + 1
                   /\ state[r]' = outputs[r]'[Len(outputs[r]')].value]_vars

C22_Witness ==
    /\ status[1] = "running"
    /\ cur[1] = "create_itinerary"
    /\ state[1].city = <<"a">>
    /\ state[1].interests = << <<"b">> >>
    /\ Len(initial[1].messages) = 1
    /\ Len(state[1].messages) = 3
    /\ llm_calls[1] = <<>>

====
